---- MODULE Spec2Model ----
(***************************************************************************)
(* Model of src/ouroboros.c: a circular buffer of MAX_STRINGS strings of   *)
(* STR_SIZE bytes behind /proc/ouroboros.  proc_write appends a string,    *)
(* proc_read removes the oldest one.  The module has two specifications:   *)
(* Spec runs whole requests one after another; SpecConc runs the requests  *)
(* of the callers statement by statement, as the module has no lock;       *)
(* SpecDrain is Spec with writers that stop and readers that keep reading. *)
(***************************************************************************)
EXTENDS Integers, Sequences, FiniteSets, TLC

(* ---- configuration: the #defines, scaled down ------------------------- *)
MAX_STRINGS == 3
STR_SIZE == 3
EFAULT == 14

(* ---- bounds of the model ---------------------------------------------- *)
NumSessions == 2
MaxByte == 2
MaxRequests == 4

NUL == 0
Sessions == 1..NumSessions
Slots == 0..(MAX_STRINGS - 1)

Min(a, b) == IF a < b THEN a ELSE b

Rep(c, n) == [i \in 1..n |-> c]

(* user buffers handed to write(2): a short text, a text that fills a row  *)
(* exactly, a text two bytes too long, and two buffers holding a zero byte *)
Inputs ==
    { <<1>>,
      Rep(MaxByte, STR_SIZE - 1),
      Rep(1, STR_SIZE - 1) \o <<MaxByte, MaxByte>>,
      <<1, NUL, MaxByte>>,
      <<NUL, 1>> }

(* sizes a caller may pass to read(2) *)
ReadCounts == {1, STR_SIZE}

VARIABLES circular_buffer, head, tail, line_count, pos, ret, out,
          phase, appended, results, removed, written,
          pc, l_row, l_len, l_reg, l_kbuf, l_count, l_split,
          rowState, twice, started, closed, queue, raced

core == <<circular_buffer, head, tail, line_count>>
(* used by SpecConc only: the position of every caller inside its request, *)
(* the locals of its call, and the history of the rows: a row is "blank"   *)
(* until an append writes it, "fresh" while it holds a record no read has  *)
(* returned, "read" once a read has returned its record; twice is set when *)
(* a read returns the record of a row that is already "read"               *)
(* closed is used by SpecDrain only: -1 while writers are around, and from  *)
(* the moment they have stopped for good the line_count of that moment     *)
conc == <<pc, l_row, l_len, l_reg, l_kbuf, l_count, l_split,
          rowState, twice, started, closed, raced>>
vars == <<circular_buffer, head, tail, line_count, pos, ret, out,
          phase, appended, results, removed, written,
          pc, l_row, l_len, l_reg, l_kbuf, l_count, l_split,
          rowState, twice, started, closed, queue, raced>>

(* ---- C library helpers ------------------------------------------------ *)
(* length of the C string held in s: bytes before the first zero byte *)
strlen(s) ==
    LET z == { i \in 1..Len(s) : s[i] = NUL }
    IN  (CHOOSE i \in z : \A j \in z : i <= j) - 1

(* strncpy(dst, src, n): n bytes written, zero padded after src's end *)
strncpy(dst, src, n) ==
    [i \in 1..Len(dst) |->
        IF i <= n THEN (IF i <= strlen(src) THEN src[i] ELSE NUL)
        ELSE dst[i]]

(* ---- add_to_buffer ---------------------------------------------------- *)
CopyLimitShort == STR_SIZE - 2

CopyLimit == STR_SIZE - 1

StoreString(dst, input) ==
    [strncpy(dst, input, CopyLimit) EXCEPT ![STR_SIZE] = NUL]

AdvanceNone(i) == i

AdvanceTwo(i) == (i + 2) % MAX_STRINGS

Advance(i) == (i + 1) % MAX_STRINGS

HasRoomEarly(n) == n < MAX_STRINGS - 1

HasRoomLate(n) == n <= MAX_STRINGS

HasRoom(n) == n < MAX_STRINGS

add_to_buffer_keep_tail(input) ==
    /\ circular_buffer' =
          [circular_buffer EXCEPT ![head] = StoreString(@, input)]
    /\ head' = Advance(head)
    /\ IF HasRoom(line_count)
       THEN line_count' = line_count + 1 /\ tail' = tail
       ELSE tail' = tail /\ line_count' = line_count

add_to_buffer(input) ==
    /\ circular_buffer' =
          [circular_buffer EXCEPT ![head] = StoreString(@, input)]
    /\ head' = Advance(head)
    /\ IF HasRoom(line_count)
       THEN line_count' = line_count + 1 /\ tail' = tail
       ELSE tail' = Advance(tail) /\ line_count' = line_count

(* ---- proc_write ------------------------------------------------------- *)
WriteLenShort(count) == Min(count, STR_SIZE - 2)

WriteLen(count) == Min(count, STR_SIZE - 1)

WriteReturnStored(count, len) == len

WriteReturn(count, len) == count

(* kbuf after copy_from_user and the manual terminator; the bytes after    *)
(* the terminator are indeterminate and never read by strncpy              *)
Kbuf(data, len) == SubSeq(data, 1, len) \o <<NUL>>

TrackAppend(data) ==
    IF phase = "append" /\ Len(appended) <= MAX_STRINGS
    THEN /\ appended' = Append(appended, data)
         /\ UNCHANGED <<phase, results>>
    ELSE /\ phase' = "off"
         /\ appended' = <<>>
         /\ results' = <<>>

proc_write_append_on_fault(data, fault) ==
    LET count == Len(data)
        len == WriteLen(count)
    IN  /\ fault => len > 0
        /\ add_to_buffer(Kbuf(data, len))
        /\ IF fault
           THEN /\ ret' = -EFAULT
                /\ UNCHANGED <<phase, appended, results, written>>
           ELSE /\ ret' = WriteReturn(count, len)
                /\ TrackAppend(data)
                /\ written' = [written EXCEPT ![head] = data]
        /\ out' = <<>>
        /\ UNCHANGED <<pos, removed, conc>>

proc_write(data, fault) ==
    LET count == Len(data)
        len == WriteLen(count)
    IN  /\ fault => len > 0
        /\ IF fault
           THEN /\ ret' = -EFAULT
                /\ UNCHANGED <<core, phase, appended, results, written>>
           ELSE /\ add_to_buffer(Kbuf(data, len))
                /\ ret' = WriteReturn(count, len)
                /\ TrackAppend(data)
                /\ written' = [written EXCEPT ![head] = data]
        /\ out' = <<>>
        /\ UNCHANGED <<pos, removed, conc>>

(* ---- proc_read -------------------------------------------------------- *)
AlreadyRead(p) == p > 0

DecrementNone(n) == n

DecrementTwo(n) == n - 2

Decrement(n) == n - 1

IsEmptyNegative(n) == n < 0

IsEmpty(n) == n <= 0

TrackRead(s, fault, r, o) ==
    IF /\ phase \in {"append", "consume"}
       /\ pos[s] = 0
       /\ ~fault
       /\ Len(results) <= Len(appended)
    THEN /\ phase' = "consume"
         /\ results' = Append(results, [ret |-> r, out |-> o])
         /\ UNCHANGED appended
    ELSE /\ phase' = "off"
         /\ appended' = <<>>
         /\ results' = <<>>

proc_read(s, count, fault) ==
    /\ UNCHANGED <<written, conc>>
    /\ IF AlreadyRead(pos[s])
       THEN /\ ~fault
            /\ ret' = 0
            /\ out' = <<>>
            /\ TrackRead(s, fault, 0, <<>>)
            /\ UNCHANGED <<core, pos, removed>>
       ELSE IF IsEmpty(line_count)
       THEN /\ ~fault
            /\ ret' = 0
            /\ out' = <<>>
            /\ TrackRead(s, fault, 0, <<>>)
            /\ UNCHANGED <<core, pos, removed>>
       ELSE LET target_str == circular_buffer[tail]
                len == strlen(target_str)
            IN  /\ fault => len > 0
                /\ tail' = Advance(tail)
                /\ line_count' = Decrement(line_count)
                /\ removed' = [removed EXCEPT ![s] = TRUE]
                /\ UNCHANGED <<circular_buffer, head>>
                /\ IF fault
                   THEN /\ ret' = -EFAULT
                        /\ out' = <<>>
                        /\ pos' = pos
                        /\ TrackRead(s, fault, -EFAULT, <<>>)
                   ELSE /\ ret' = len
                        /\ out' = SubSeq(target_str, 1, len)
                        /\ pos' = [pos EXCEPT ![s] = @ + len]
                        /\ TrackRead(s, fault, len, SubSeq(target_str, 1, len))

(* a caller closes its file and opens /proc/ouroboros again: offset 0 *)
Open(s) ==
    /\ pos' = [pos EXCEPT ![s] = 0]
    /\ removed' = [removed EXCEPT ![s] = FALSE]
    /\ UNCHANGED <<core, ret, out, phase, appended, results, written, conc>>

Init ==
    /\ circular_buffer = [i \in Slots |-> Rep(NUL, STR_SIZE)]
    /\ head = 0
    /\ tail = 0
    /\ line_count = 0
    /\ pos = [s \in Sessions |-> 0]
    /\ ret = 0
    /\ out = <<>>
    /\ phase = "append"
    /\ appended = <<>>
    /\ results = <<>>
    /\ removed = [s \in Sessions |-> FALSE]
    /\ written = [i \in Slots |-> <<>>]
    /\ pc = [s \in Sessions |-> "idle"]
    /\ l_row = [s \in Sessions |-> 0]
    /\ l_len = [s \in Sessions |-> 0]
    /\ l_reg = [s \in Sessions |-> 0]
    /\ l_kbuf = [s \in Sessions |-> <<>>]
    /\ l_count = [s \in Sessions |-> 0]
    /\ l_split = [s \in Sessions |-> 0]
    /\ rowState = [i \in Slots |-> "blank"]
    /\ twice = FALSE
    /\ started = 0
    /\ closed = -1
    /\ queue = <<>>
    /\ raced = FALSE

(* queue is used by SpecRef only *)
Write ==
    /\ \E data \in Inputs, fault \in BOOLEAN : proc_write(data, fault)
    /\ UNCHANGED queue

Read ==
    /\ \E s \in Sessions, c \in ReadCounts, fault \in BOOLEAN :
          proc_read(s, c, fault)
    /\ UNCHANGED queue

Reopen ==
    /\ \E s \in Sessions : Open(s)
    /\ UNCHANGED queue

Next == Write \/ Read \/ Reopen

Spec == Init /\ [][Next]_vars

(* ======================================================================= *)
(* SpecDrain: whole requests as in Spec; at some point the writers stop    *)
(* for good, while callers keep opening the file and reading it.           *)
(* ======================================================================= *)
DrainInputs == { <<1>>, <<NUL, 1>> }

WriteDrain ==
    /\ closed < 0
    /\ \E data \in DrainInputs, fault \in BOOLEAN : proc_write(data, fault)
    /\ UNCHANGED queue

(* the last writer has gone: nothing of the module changes *)
Stop ==
    /\ closed < 0
    /\ closed' = line_count
    /\ UNCHANGED <<core, pos, ret, out, phase, appended, results, removed,
                   written, pc, l_row, l_len, l_reg, l_kbuf, l_count, l_split,
                   rowState, twice, started, queue, raced>>

(* a read at offset 0, the first read after an open *)
FreshRead ==
    /\ \E s \in Sessions, c \in ReadCounts, fault \in BOOLEAN :
          pos[s] = 0 /\ proc_read(s, c, fault)
    /\ UNCHANGED queue

NextDrain == WriteDrain \/ Read \/ Reopen \/ Stop

SpecDrain ==
    Init /\ [][NextDrain]_vars /\ WF_vars(FreshRead) /\ WF_vars(Reopen)

(* ======================================================================= *)
(* SpecConc: the same handlers, one statement (and, for the shared         *)
(* indices, one load or one store) per step.  The module takes no lock, so *)
(* the requests of different open files interleave freely; requests on one *)
(* open file follow each other.                                            *)
(* ======================================================================= *)
seqGhost == <<phase, appended, results, removed, written, closed, queue>>

Goto(s, label) == pc' = [pc EXCEPT ![s] = label]

(* the request of s returns r (and o copied to the caller); its locals die *)
Return(s, r, o) ==
    /\ pc' = [pc EXCEPT ![s] = "idle"]
    /\ ret' = r
    /\ out' = o
    /\ l_row' = [l_row EXCEPT ![s] = 0]
    /\ l_len' = [l_len EXCEPT ![s] = 0]
    /\ l_reg' = [l_reg EXCEPT ![s] = 0]
    /\ l_kbuf' = [l_kbuf EXCEPT ![s] = <<>>]
    /\ l_count' = [l_count EXCEPT ![s] = 0]
    /\ l_split' = [l_split EXCEPT ![s] = 0]

(* ---- proc_read, statement by statement -------------------------------- *)
(* line 67: the test of the caller's own offset *)
r67(s) ==
    /\ pc[s] = "idle"
    /\ started < MaxRequests
    /\ started' = started + 1
    /\ raced' = (raced \/ \E t \in Sessions \ {s} : pc[t] # "idle")
    /\ IF AlreadyRead(pos[s])
       THEN /\ Return(s, 0, <<>>)
       ELSE /\ Goto(s, "r70")
            /\ UNCHANGED <<ret, out, l_row, l_len, l_reg, l_kbuf, l_count, l_split>>
    /\ UNCHANGED <<core, pos, seqGhost, rowState, twice>>

(* line 70: load of line_count *)
r70(s) ==
    /\ pc[s] = "r70"
    /\ IF IsEmpty(line_count)
       THEN /\ Return(s, 0, <<>>)
       ELSE /\ Goto(s, "r76")
            /\ UNCHANGED <<ret, out, l_row, l_len, l_reg, l_kbuf, l_count, l_split>>
    /\ UNCHANGED <<core, pos, seqGhost, raced, rowState, twice, started>>

(* line 76: target_str = circular_buffer[tail], a load of tail *)
r76(s) ==
    /\ pc[s] = "r76"
    /\ l_row' = [l_row EXCEPT ![s] = tail]
    /\ Goto(s, "r77")
    /\ UNCHANGED <<core, pos, ret, out, seqGhost, raced, l_len, l_reg, l_kbuf,
                   l_count, l_split, rowState, twice, started>>

(* line 77: len = strlen(target_str) *)
r77(s) ==
    /\ pc[s] = "r77"
    /\ l_len' = [l_len EXCEPT ![s] = strlen(circular_buffer[l_row[s]])]
    /\ Goto(s, "r79")
    /\ UNCHANGED <<core, pos, ret, out, seqGhost, raced, l_row, l_reg, l_kbuf,
                   l_count, l_split, rowState, twice, started>>

(* line 79: tail = (tail + 1) % MAX_STRINGS, the load *)
r79(s) ==
    /\ pc[s] = "r79"
    /\ l_reg' = [l_reg EXCEPT ![s] = tail]
    /\ Goto(s, "r79s")
    /\ UNCHANGED <<core, pos, ret, out, seqGhost, raced, l_row, l_len, l_kbuf,
                   l_count, l_split, rowState, twice, started>>

(* line 79, the store *)
r79s(s) ==
    /\ pc[s] = "r79s"
    /\ tail' = Advance(l_reg[s])
    /\ Goto(s, "r80")
    /\ UNCHANGED <<circular_buffer, head, line_count, pos, ret, out, seqGhost, raced,
                   l_row, l_len, l_reg, l_kbuf, l_count, l_split,
                   rowState, twice, started>>

(* line 80: line_count--, the load *)
r80(s) ==
    /\ pc[s] = "r80"
    /\ l_reg' = [l_reg EXCEPT ![s] = line_count]
    /\ Goto(s, "r80s")
    /\ UNCHANGED <<core, pos, ret, out, seqGhost, raced, l_row, l_len, l_kbuf,
                   l_count, l_split, rowState, twice, started>>

(* line 80, the store *)
r80s(s) ==
    /\ pc[s] = "r80s"
    /\ line_count' = Decrement(l_reg[s])
    /\ Goto(s, "r83")
    /\ UNCHANGED <<circular_buffer, head, tail, pos, ret, out, seqGhost, raced,
                   l_row, l_len, l_reg, l_kbuf, l_count, l_split,
                   rowState, twice, started>>

(* lines 83-90: copy_to_user of len bytes of the row, then the offset *)
r83(s, fault) ==
    /\ pc[s] = "r83"
    /\ fault => l_len[s] > 0
    /\ IF fault
       THEN /\ Return(s, -EFAULT, <<>>)
            /\ UNCHANGED <<pos, rowState, twice>>
       ELSE /\ Return(s, l_len[s], SubSeq(circular_buffer[l_row[s]], 1, l_len[s]))
            /\ pos' = [pos EXCEPT ![s] = @ + l_len[s]]
            /\ rowState' = [rowState EXCEPT ![l_row[s]] =
                                IF @ = "fresh" THEN "read" ELSE @]
            /\ twice' = (twice \/ rowState[l_row[s]] = "read")
    /\ UNCHANGED <<core, seqGhost, raced, started>>

(* ---- proc_write and add_to_buffer, statement by statement -------------- *)
(* lines 104-110: the copy from the caller into kbuf *)
w104(s, data, fault) ==
    /\ pc[s] = "idle"
    /\ started < MaxRequests
    /\ started' = started + 1
    /\ raced' = (raced \/ \E t \in Sessions \ {s} : pc[t] # "idle")
    /\ LET count == Len(data)
           len == WriteLen(count)
       IN  /\ fault => len > 0
           /\ IF fault
              THEN Return(s, -EFAULT, <<>>)
              ELSE /\ Goto(s, "w37")
                   /\ l_kbuf' = [l_kbuf EXCEPT ![s] = Kbuf(data, len)]
                   /\ l_count' = [l_count EXCEPT ![s] = count]
                   /\ UNCHANGED <<ret, out, l_row, l_len, l_reg, l_split>>
    /\ UNCHANGED <<core, pos, seqGhost, rowState, twice>>

(* line 37: strncpy into circular_buffer[head]; head is loaded once, the   *)
(* bytes 1..k reach the row in this step and the others in the next one    *)
w37(s, k) ==
    /\ pc[s] = "w37"
    /\ l_row' = [l_row EXCEPT ![s] = head]
    /\ l_split' = [l_split EXCEPT ![s] = k]
    /\ circular_buffer' =
          [circular_buffer EXCEPT ![head] =
              [i \in 1..STR_SIZE |->
                  IF i <= k THEN strncpy(@, l_kbuf[s], CopyLimit)[i] ELSE @[i]]]
    /\ rowState' = [rowState EXCEPT ![head] = "fresh"]
    /\ Goto(s, "w37b")
    /\ UNCHANGED <<head, tail, line_count, pos, ret, out, seqGhost, raced,
                   l_len, l_reg, l_kbuf, l_count, twice, started>>

w37b(s) ==
    /\ pc[s] = "w37b"
    /\ circular_buffer' =
          [circular_buffer EXCEPT ![l_row[s]] =
              [i \in 1..STR_SIZE |->
                  IF i > l_split[s]
                  THEN strncpy(@, l_kbuf[s], CopyLimit)[i] ELSE @[i]]]
    /\ rowState' = [rowState EXCEPT ![l_row[s]] = "fresh"]
    /\ Goto(s, "w38")
    /\ UNCHANGED <<head, tail, line_count, pos, ret, out, seqGhost, raced,
                   l_row, l_len, l_reg, l_kbuf, l_count, l_split, twice,
                   started>>

(* line 38: circular_buffer[head][STR_SIZE - 1] = 0, head loaded again *)
w38(s) ==
    /\ pc[s] = "w38"
    /\ circular_buffer' = [circular_buffer EXCEPT ![head][STR_SIZE] = NUL]
    /\ Goto(s, "w41")
    /\ UNCHANGED <<head, tail, line_count, pos, ret, out, seqGhost, raced,
                   l_row, l_len, l_reg, l_kbuf, l_count, l_split,
                   rowState, twice, started>>

(* line 41: head = (head + 1) % MAX_STRINGS, the load *)
w41(s) ==
    /\ pc[s] = "w41"
    /\ l_reg' = [l_reg EXCEPT ![s] = head]
    /\ Goto(s, "w41s")
    /\ UNCHANGED <<core, pos, ret, out, seqGhost, raced, l_row, l_len, l_kbuf,
                   l_count, l_split, rowState, twice, started>>

(* line 41, the store *)
w41s(s) ==
    /\ pc[s] = "w41s"
    /\ head' = Advance(l_reg[s])
    /\ Goto(s, "w43")
    /\ UNCHANGED <<circular_buffer, tail, line_count, pos, ret, out, seqGhost, raced,
                   l_row, l_len, l_reg, l_kbuf, l_count, l_split,
                   rowState, twice, started>>

(* line 43: the test line_count < MAX_STRINGS, a load of line_count *)
w43(s) ==
    /\ pc[s] = "w43"
    /\ IF HasRoom(line_count) THEN Goto(s, "w44") ELSE Goto(s, "w48")
    /\ UNCHANGED <<core, pos, ret, out, seqGhost, raced, l_row, l_len, l_reg, l_kbuf,
                   l_count, l_split, rowState, twice, started>>

(* line 44: line_count++, the load *)
w44(s) ==
    /\ pc[s] = "w44"
    /\ l_reg' = [l_reg EXCEPT ![s] = line_count]
    /\ Goto(s, "w44s")
    /\ UNCHANGED <<core, pos, ret, out, seqGhost, raced, l_row, l_len, l_kbuf,
                   l_count, l_split, rowState, twice, started>>

(* line 44, the store; lines 114-115: return count *)
w44s(s) ==
    /\ pc[s] = "w44s"
    /\ line_count' = l_reg[s] + 1
    /\ Return(s, WriteReturn(l_count[s], Len(l_kbuf[s]) - 1), <<>>)
    /\ UNCHANGED <<circular_buffer, head, tail, pos, seqGhost, raced,
                   rowState, twice, started>>

(* line 48: tail = (tail + 1) % MAX_STRINGS, the load *)
w48(s) ==
    /\ pc[s] = "w48"
    /\ l_reg' = [l_reg EXCEPT ![s] = tail]
    /\ Goto(s, "w48s")
    /\ UNCHANGED <<core, pos, ret, out, seqGhost, raced, l_row, l_len, l_kbuf,
                   l_count, l_split, rowState, twice, started>>

(* line 48, the store; lines 114-115: return count *)
w48s(s) ==
    /\ pc[s] = "w48s"
    /\ tail' = Advance(l_reg[s])
    /\ Return(s, WriteReturn(l_count[s], Len(l_kbuf[s]) - 1), <<>>)
    /\ UNCHANGED <<circular_buffer, head, line_count, pos, seqGhost, raced,
                   rowState, twice, started>>

(* close and open again, between two requests of the caller *)
OpenConc(s) ==
    /\ pc[s] = "idle"
    /\ pos[s] > 0
    /\ pos' = [pos EXCEPT ![s] = 0]
    /\ UNCHANGED <<core, ret, out, seqGhost, conc>>

ConcInputs == { Rep(MaxByte, STR_SIZE - 1) }

ReadStmt ==
    \E s \in Sessions :
        \/ r67(s) \/ r70(s) \/ r76(s) \/ r77(s)
        \/ r79(s) \/ r79s(s) \/ r80(s) \/ r80s(s)
        \/ \E fault \in BOOLEAN : r83(s, fault)

WriteStmt ==
    \E s \in Sessions :
        \/ \E data \in ConcInputs, fault \in BOOLEAN : w104(s, data, fault)
        \/ \E k \in 1..CopyLimit : w37(s, k)
        \/ w37b(s) \/ w38(s) \/ w41(s) \/ w41s(s) \/ w43(s)
        \/ w44(s) \/ w44s(s) \/ w48(s) \/ w48s(s)

ReopenConc == \E s \in Sessions : OpenConc(s)

NextConc == ReadStmt \/ WriteStmt \/ ReopenConc

SpecConc == Init /\ [][NextConc]_vars

(* ======================================================================= *)
(* Properties                                                              *)
(* ======================================================================= *)
(* a record in the sense of the data model: text without a zero byte that  *)
(* fits a row together with its terminator                                 *)
IsText(d) == Len(d) <= STR_SIZE - 1 /\ \A i \in 1..Len(d) : d[i] # NUL

TerminatorFree(d) == \A i \in 1..Len(d) : d[i] # NUL

Delivered(d) == [ret |-> Len(d), out |-> d]

EmptySignal == [ret |-> 0, out |-> <<>>]

(* the run so far is: some appends from the empty channel, then reads in   *)
(* fresh sessions, nothing else that touched the buffer                    *)
(* steps of Spec, recognised by what they must change before the whole     *)
(* handler is evaluated: with MAX_STRINGS > 1 a successful write moves     *)
(* head and records its data, and no read or open moves head               *)
Wrote(data) ==
    /\ head' # head
    /\ written'[head] = data
    /\ proc_write(data, FALSE)

ReadBy(s, fault) ==
    /\ head' = head
    /\ \E c \in ReadCounts : proc_read(s, c, fault)

InScenario == phase \in {"append", "consume"}

AllText == \A i \in 1..Len(appended) : IsText(appended[i])

(* C1: from the empty channel, after k <= MAX_STRINGS appends A1..Ak and   *)
(* no consumption, the reads of fresh sessions return A1..Ak in that order *)
(* and the read after the k-th returns the empty signal.                   *)
C1_FifoOrder ==
    (InScenario /\ AllText /\ Len(appended) <= MAX_STRINGS) =>
        \A i \in 1..Len(results) :
            results[i] = IF i <= Len(appended)
                         THEN Delivered(appended[i])
                         ELSE EmptySignal

C1_Witness ==
    /\ phase = "consume"
    /\ AllText
    /\ Len(appended) = MAX_STRINGS
    /\ Len(results) = MAX_STRINGS + 1
    /\ appended[1] # appended[2]

(* C2: an append at line_count = MAX_STRINGS advances tail by exactly one  *)
(* modulo MAX_STRINGS, keeps line_count at MAX_STRINGS and stores the new  *)
(* record over the oldest one; after MAX_STRINGS+1 appends and no          *)
(* consumption, MAX_STRINGS reads return the appended records              *)
(* 2..MAX_STRINGS+1 in order and the next read returns empty.              *)
C2_OverwriteStep ==
    \A data \in Inputs :
        (line_count = MAX_STRINGS /\ Wrote(data)) =>
            /\ tail' = (tail + 1) % MAX_STRINGS
            /\ line_count' = MAX_STRINGS
            /\ written'[tail] = data
            /\ \A i \in Slots \ {tail} : circular_buffer'[i] = circular_buffer[i]

C2_AfterOverflow ==
    (InScenario /\ AllText /\ Len(appended) = MAX_STRINGS + 1) =>
        \A i \in 1..Len(results) :
            results[i] = IF i <= MAX_STRINGS
                         THEN Delivered(appended[i + 1])
                         ELSE EmptySignal

C2_OverwriteOldest == [][C2_OverwriteStep]_vars /\ []C2_AfterOverflow

C2_Witness ==
    /\ phase = "consume"
    /\ AllText
    /\ Len(appended) = MAX_STRINGS + 1
    /\ Len(results) = MAX_STRINGS + 1
    /\ appended[1] # appended[2]
    /\ results[1] = Delivered(appended[2])

(* C3: once a read of a session has removed a record, every later read of  *)
(* that session returns 0 and leaves head, tail, line_count and the rows   *)
(* unchanged.                                                              *)
C3_OneRecordPerSession ==
    [][\A s \in Sessions :
          (removed[s] /\ \E f \in BOOLEAN : ReadBy(s, f))
              => (ret' = 0 /\ UNCHANGED core)]_vars

(* C4: a read whose copy to the caller faults leaves head, tail,           *)
(* line_count and every row as they were.                                  *)
C4_FaultKeepsState ==
    [][\A s \in Sessions : ReadBy(s, TRUE) => UNCHANGED core]_vars

(* C5: a read at line_count = 0 returns 0 and changes neither head, tail,  *)
(* line_count, any row, nor the position of any session.                   *)
C5_EmptyReadStep ==
    line_count = 0 =>
        \A s \in Sessions, f \in BOOLEAN :
            ReadBy(s, f) =>
                /\ ret' = 0
                /\ out' = <<>>
                /\ UNCHANGED <<circular_buffer, head, tail, line_count, pos>>

C5_EmptyReadIsNoOp == [][C5_EmptyReadStep]_vars

C5_Witness ==
    /\ phase = "consume"
    /\ Len(appended) >= 1
    /\ Len(results) = Len(appended) + 1
    /\ results[Len(results)] = EmptySignal
    /\ line_count = 0
    /\ tail # 0

(* C6: appending a record without a zero byte that is longer than          *)
(* STR_SIZE-1 bytes stores its first STR_SIZE-1 bytes and a terminator,    *)
(* returns no error, and the read that removes the record returns exactly  *)
(* those STR_SIZE-1 bytes.                                                 *)
Oversize(d) == TerminatorFree(d) /\ Len(d) > STR_SIZE - 1

C6_StoreStep ==
    \A data \in Inputs :
        (Oversize(data) /\ Wrote(data)) =>
            /\ circular_buffer'[head] = SubSeq(data, 1, STR_SIZE - 1) \o <<NUL>>
            /\ ret' >= 0

C6_ReadStep ==
    \A s \in Sessions :
        (/\ pos[s] = 0
         /\ line_count > 0
         /\ Oversize(written[tail])
         /\ ReadBy(s, FALSE)) =>
            /\ ret' = STR_SIZE - 1
            /\ out' = SubSeq(written[tail], 1, STR_SIZE - 1)

C6_Truncation == [][C6_StoreStep /\ C6_ReadStep]_vars

C6_Witness ==
    /\ phase = "consume"
    /\ Len(results) >= 1
    /\ Len(results) <= Len(appended)
    /\ Oversize(appended[Len(results)])
    /\ results[Len(results)].ret = STR_SIZE - 1
    /\ results[Len(results)].out = SubSeq(appended[Len(results)], 1, STR_SIZE - 1)

(* C7: a write whose copy from the caller succeeds returns the caller's    *)
(* request length, also when that length exceeds STR_SIZE-1.               *)
C7_WriteStep ==
    \A data \in Inputs : Wrote(data) => ret' = Len(data)

C7_WriteReturnsCount == [][C7_WriteStep]_vars

C7_Witness ==
    /\ phase = "append"
    /\ Len(appended) >= 1
    /\ Len(appended[Len(appended)]) > STR_SIZE - 1
    /\ ret = Len(appended[Len(appended)])
    /\ strlen(circular_buffer[(head + MAX_STRINGS - 1) % MAX_STRINGS]) < ret

(* C10: in every state reached by whole requests run one after another,    *)
(* 0 <= head < MAX_STRINGS, 0 <= tail < MAX_STRINGS and                    *)
(* 0 <= line_count <= MAX_STRINGS.                                         *)
C10_IndexBounds ==
    /\ head \in 0..(MAX_STRINGS - 1)
    /\ tail \in 0..(MAX_STRINGS - 1)
    /\ line_count \in 0..MAX_STRINGS

C10_Witness ==
    /\ line_count = MAX_STRINGS
    /\ head = tail
    /\ tail = MAX_STRINGS - 1
    /\ phase = "off"

(* C8: no two requests are at the same time between the first and the last *)
(* access to head, tail, line_count or a row that their call performs.     *)
InRead(s) == pc[s] \in {"r76", "r77", "r79", "r79s", "r80", "r80s", "r83"}

InWrite(s) ==
    pc[s] \in {"w37b", "w38", "w41", "w41s", "w43", "w44", "w44s", "w48", "w48s"}

InCritical(s) == InRead(s) \/ InWrite(s)

C8_MutualExclusion ==
    \A s \in Sessions, t \in Sessions :
        (s # t) => ~(InCritical(s) /\ InCritical(t))

(* C9: no appended record is returned by two different reads.              *)
C9_SingleDelivery == ~twice

(* C11: once no append occurs any more, reads in fresh sessions reach the  *)
(* empty channel: line_count never grows, every read that removes a record *)
(* lowers it by exactly one, so at most as many reads as there were        *)
(* records succeed; eventually line_count is 0, and from then on every     *)
(* read returns 0 and line_count stays 0.                                  *)
C11_DrainStep ==
    (closed >= 0) =>
        /\ closed' = closed
        /\ line_count' \in {line_count, line_count - 1}
        /\ line_count' >= 0
        /\ line_count' <= closed
        /\ \A s \in Sessions :
              (pos[s] = 0 /\ line_count > 0
                  /\ \E f \in BOOLEAN : ReadBy(s, f))
                      => line_count' = line_count - 1
        /\ (line_count = 0) =>
              /\ line_count' = 0
              /\ \A s \in Sessions, f \in BOOLEAN :
                    ReadBy(s, f) => (ret' = 0 /\ out' = <<>>)

C11_EventuallyEmpty ==
    /\ (closed >= 0) ~> (line_count = 0)
    /\ [][C11_DrainStep]_vars

C11_Witness ==
    /\ closed = MAX_STRINGS
    /\ line_count = 0
    /\ ret = 0
    /\ out = <<>>

(* the first min(len(d), STR_SIZE-1) bytes of d *)
Truncated(d) == SubSeq(d, 1, Min(Len(d), STR_SIZE - 1))

(* the bytes of d before its first zero byte, all of d when it has none *)
BeforeZero(d) ==
    LET z == { i \in 1..Len(d) : d[i] = NUL }
    IN  IF z = {} THEN d
        ELSE SubSeq(d, 1, (CHOOSE i \in z : \A j \in z : i <= j) - 1)

(* C12 as stated: for every appended byte sequence d, zero bytes included, *)
(* the stored record has length min(len(d), STR_SIZE-1) and the read that  *)
(* removes it returns the first min(len(d), STR_SIZE-1) bytes of d.        *)
C12_ExactBytesStep ==
    /\ \A data \in Inputs :
          Wrote(data) =>
              strlen(circular_buffer'[head]) = Min(Len(data), STR_SIZE - 1)
    /\ \A s \in Sessions :
          (pos[s] = 0 /\ line_count > 0 /\ ReadBy(s, FALSE)) =>
              out' = Truncated(written[tail])

C12_ExactBytes == [][C12_ExactBytesStep]_vars

(* C12 amended: the stored record is the part of the first                 *)
(* min(len(d), STR_SIZE-1) bytes of d that precedes their first zero byte  *)
(* (all of them when none is zero), the rest of the row is zero, and the   *)
(* read that removes the record returns exactly that part.                 *)
C12_StringStep ==
    /\ \A data \in Inputs :
          Wrote(data) =>
              LET rec == BeforeZero(Truncated(data))
              IN  circular_buffer'[head] = rec \o Rep(NUL, STR_SIZE - Len(rec))
    /\ \A s \in Sessions :
          (pos[s] = 0 /\ line_count > 0 /\ ReadBy(s, FALSE)) =>
              /\ out' = BeforeZero(Truncated(written[tail]))
              /\ ret' = Len(out')

C12_StoredString == [][C12_StringStep]_vars

C12_Witness ==
    /\ phase = "consume"
    /\ Len(results) >= 2
    /\ Len(results) <= Len(appended)
    /\ ~TerminatorFree(appended[Len(results)])
    /\ appended[Len(results)][1] # NUL
    /\ results[Len(results)].out = BeforeZero(Truncated(appended[Len(results)]))
    /\ results[Len(results)].ret < Min(Len(appended[Len(results)]), STR_SIZE - 1)

(* ======================================================================= *)
(* SpecRef: successful appends and fresh-session reads, run side by side   *)
(* with a reference queue of at most MAX_STRINGS records: an append drops  *)
(* the front when the queue is full and adds at the back, a consume        *)
(* removes the front.                                                      *)
(* ======================================================================= *)
Record(d) == BeforeZero(Truncated(d))

RefAppend(q, r) ==
    IF Len(q) = MAX_STRINGS THEN Append(Tail(q), r) ELSE Append(q, r)

RefConsume(q) == IF q = <<>> THEN q ELSE Tail(q)

RefWrite ==
    \E data \in Inputs :
        /\ proc_write(data, FALSE)
        /\ queue' = RefAppend(queue, Record(data))

RefRead ==
    \E s \in Sessions, c \in ReadCounts :
        /\ pos[s] = 0
        /\ proc_read(s, c, FALSE)
        /\ queue' = RefConsume(queue)

NextRef == RefWrite \/ RefRead \/ Reopen

SpecRef == Init /\ [][NextRef]_vars

(* the unread records of the ring, oldest first *)
RingRecords ==
    [i \in 1..line_count |->
        LET row == circular_buffer[(tail + i - 1) % MAX_STRINGS]
        IN  SubSeq(row, 1, strlen(row))]

RingMatchesQueue == RingRecords = queue

(* every read returns the front of the reference queue *)
ReturnsFrontStep ==
    \A s \in Sessions :
        (pos[s] = 0 /\ queue # <<>> /\ ReadBy(s, FALSE)) =>
            (out' = Head(queue) /\ ret' = Len(Head(queue)))

(* a read returns the empty signal exactly when the reference queue is     *)
(* empty                                                                   *)
EmptyIffQueueEmptyStep ==
    \A s \in Sessions :
        (pos[s] = 0 /\ ReadBy(s, FALSE)) =>
            (([ret |-> ret', out |-> out'] = EmptySignal) <=> (queue = <<>>))

(* C13: after any sequence of successful appends and fresh-session reads   *)
(* the unread records of the ring equal the reference queue, and every     *)
(* read returns the front of the reference queue, or empty exactly when    *)
(* the reference queue is empty.                                           *)
C13_RefinesQueue ==
    /\ []RingMatchesQueue
    /\ [][ReturnsFrontStep /\ EmptyIffQueueEmptyStep]_vars

(* the part of C13 that does not depend on telling a record of length 0    *)
(* from the empty signal                                                   *)
C13_OrderOnly == []RingMatchesQueue /\ [][ReturnsFrontStep]_vars

(* ======================================================================= *)
(* C14: the indices under concurrent callers                               *)
(* ======================================================================= *)
Quiescent == \A s \in Sessions : pc[s] = "idle"

IndexRelation == head = (tail + line_count) % MAX_STRINGS

(* C14: with concurrent callers and no synchronisation a quiescent state   *)
(* with head # (tail + line_count) % MAX_STRINGS is reachable (the         *)
(* witness: two requests, interleaved at the loads and stores of head,     *)
(* tail and line_count), and it is the interleaving that corrupts the      *)
(* indices: a quiescent state breaks the relation only if a request        *)
(* started while another one was in flight.                                *)
C14_CorruptionByRace == (Quiescent /\ ~IndexRelation) => raced

C14_Witness == Quiescent /\ started = 2 /\ raced /\ ~IndexRelation

(* ======================================================================= *)
(* C15 .. C19: the handlers, one request at a time                         *)
(* ======================================================================= *)
(* C15: a read with requested size c copies at most c bytes to the caller  *)
(* and returns at most c.                                                  *)
C15_ReadStep ==
    \A s \in Sessions, c \in ReadCounts :
        (head' = head /\ proc_read(s, c, FALSE)) =>
            (ret' <= c /\ Len(out') <= c)

C15_AtMostCount == [][C15_ReadStep]_vars

(* C16: a read returns 0 only when it left tail and line_count unchanged,  *)
(* and a read that removes a record returns neither 0 nor -EFAULT.         *)
C16_ReadStep ==
    \A s \in Sessions, f \in BOOLEAN :
        ReadBy(s, f) =>
            /\ (ret' = 0) => UNCHANGED <<tail, line_count>>
            /\ (line_count' # line_count) => ret' \notin {0, -EFAULT}

C16_ResultTellsRemoval == [][C16_ReadStep]_vars

(* C17: a successful consume advances tail by one modulo MAX_STRINGS,      *)
(* decrements line_count by one and moves only the caller's own offset;    *)
(* head and every row, the consumed one included, are unchanged.           *)
C17_ConsumeStep ==
    \A s \in Sessions :
        (pos[s] = 0 /\ line_count > 0 /\ ReadBy(s, FALSE)) =>
            /\ tail' = (tail + 1) % MAX_STRINGS
            /\ line_count' = line_count - 1
            /\ head' = head
            /\ circular_buffer' = circular_buffer
            /\ \A t \in Sessions \ {s} : pos'[t] = pos[t]

C17_ConsumeFrame == [][C17_ConsumeStep]_vars

(* a read has just delivered a record, and the row behind tail still holds *)
(* it                                                                      *)
C17_Witness ==
    /\ ret > 0
    /\ out # <<>>
    /\ LET row == circular_buffer[(tail + MAX_STRINGS - 1) % MAX_STRINGS]
       IN  SubSeq(row, 1, strlen(row)) = out

(* C18: in every state reached by write and read requests run one at a     *)
(* time, head = (tail + line_count) % MAX_STRINGS, and head = tail exactly *)
(* when line_count is 0 or MAX_STRINGS.                                    *)
C18_HeadTailCount ==
    /\ IndexRelation
    /\ (head = tail) <=> (line_count \in {0, MAX_STRINGS})

(* a request has just faulted on a full ring whose tail has moved *)
C18_Witness ==
    /\ line_count = MAX_STRINGS
    /\ head = tail
    /\ tail # 0
    /\ ret = -EFAULT

(* C19: a write whose copy from the caller fails returns -EFAULT and       *)
(* leaves head, tail, line_count and every row unchanged.                  *)
C19_FaultStep ==
    \A data \in Inputs :
        (out' = <<>> /\ pos' = pos /\ proc_write(data, TRUE)) =>
            (ret' = -EFAULT /\ UNCHANGED core)

C19_WriteFaultKeepsState == [][C19_FaultStep]_vars

(* a write has just faulted after a record was appended *)
C19_Witness ==
    /\ phase = "append"
    /\ ret = -EFAULT
    /\ line_count >= 1
    /\ Len(appended) >= 1
====
